---------------------------- MODULE Spec2Model ----------------------------
(***************************************************************************)
(* QKart front end: the cart line-item assembler (generateCartItemsFrom),  *)
(* the cart aggregates (getTotalCartValue, getTotalItems), the Cart view   *)
(* with its ItemQuantity controls, and the Header's logout.                *)
(*                                                                         *)
(* JavaScript values are modelled as follows.  undefined, null and a       *)
(* non-array object are the tagged records Undefined, Null and Obj; an     *)
(* array is Arr(s) for a TLA+ sequence s; products, cart entries and line  *)
(* items are records with the field names of the source; numbers are       *)
(* integers and strings are strings.                                       *)
(***************************************************************************)
EXTENDS Integers, Sequences, FiniteSets, TLC

\* ------------------------------------------------------------- bounds
MaxCart == 2
MaxCatalog == 2
MaxItems == 2

\* ------------------------------------------------------------- values
Undefined == [t |-> "undefined"]
Null == [t |-> "null"]
Obj == [t |-> "object"]
Arr(s) == [t |-> "array", v |-> s]
Str(s) == [t |-> "string", v |-> s]

\* Array.isArray and JavaScript truthiness, on the tagged values
isArray(x) == x.t = "array"
\* (undefined, null and the empty string are falsy; objects, arrays and
\* non-empty strings are truthy)
Truthy(x) ==
  /\ x.t \notin {"undefined", "null"}
  /\ ~(x.t = "string" /\ x.v = "")

\* the inputs the model draws
ProductIds == {"A", "B", "Z"}
Quantities == {-1, 1, 3}
Products ==
  { [_id |-> "A", name |-> "X", category |-> "c1", cost |-> 5, rating |-> 4, image |-> "x.png"],
    [_id |-> "A", name |-> "Y", category |-> "c2", cost |-> 0, rating |-> 5, image |-> "y.png"],
    [_id |-> "B", name |-> "W", category |-> "c1", cost |-> 2, rating |-> 0, image |-> "w.png"] }
CartEntries == [productId : ProductIds, qty : Quantities]

SeqsUpTo(S, n) == UNION { [1..k -> S] : k \in 0..n }
Absent == {Undefined, Null}
CartDataValues == Absent \cup { Arr(s) : s \in SeqsUpTo(CartEntries, MaxCart) }
ProductsDataValues == Absent \cup {Obj, Str("")} \cup { Arr(s) : s \in SeqsUpTo(Products, MaxCatalog) }

\* cartData, productsData   the caller's cart entries and catalog
\* items                    the caller's line items (the Cart's items prop)
\* genCall                  the latest call of generateCartItemsFrom: its
\*                          arguments, what it returned, logged and left behind
\* aggCall                  the latest call of getTotalCartValue or
\*                          getTotalItems: its argument and what it returned
\* isReadOnly, hasCheckoutButton, hasHiddenAuthButtons
\*                          the props of Cart and Header
\* localStorage             the browser's store, keys token and username
\* view                     what Cart last rendered
\* header                   what Header last rendered
\* reloadPending            window.location.reload was called and the page
\*                          has not unloaded yet
\* lastEvent                the latest user event
\* handleQuantityCalls      the argument lists handleQuantity was called with
\*                          during the latest user event
\* historyTop               the path last given to history.push
VARIABLES cartData, productsData, items, genCall, aggCall,
          isReadOnly, hasCheckoutButton, hasHiddenAuthButtons, localStorage,
          view, header, reloadPending, lastEvent, handleQuantityCalls, historyTop

vars == <<cartData, productsData, items, genCall, aggCall,
          isReadOnly, hasCheckoutButton, hasHiddenAuthButtons, localStorage,
          view, header, reloadPending, lastEvent, handleQuantityCalls, historyTop>>

coreVars == <<cartData, productsData, items, genCall, aggCall>>
viewVars == <<isReadOnly, hasCheckoutButton, hasHiddenAuthButtons, localStorage,
              view, header, reloadPending, lastEvent, handleQuantityCalls, historyTop>>

NotCalled == [called |-> FALSE]

\* ------------------------------------------------ generateCartItemsFrom

\* the guard without its length test
productsDataUnavailableNoLength(pd) ==
  \/ ~Truthy(pd)
  \/ ~isArray(pd)

\* Cart.js 56-60: the guard on productsData
productsDataUnavailable(pd) ==
  \/ ~Truthy(pd)
  \/ ~isArray(pd)
  \/ Len(pd.v) = 0

\* the last product with that id instead of the first
RECURSIVE findLast(_, _)
findLast(products, productId) ==
  IF products = <<>> THEN Undefined
  ELSE IF products[Len(products)]._id = productId THEN products[Len(products)]
  ELSE findLast(SubSeq(products, 1, Len(products) - 1), productId)

\* Cart.js 66-68: productsData.find((product) => product._id === cartItem.productId),
\* the first product of the sequence with that id, undefined when there is none
RECURSIVE find(_, _)
find(products, productId) ==
  IF products = <<>> THEN Undefined
  ELSE IF Head(products)._id = productId THEN Head(products)
  ELSE find(Tail(products), productId)

\* the callback completing the cart entry itself instead of a new object
mapCallbackInPlace(cartItem, products) ==
  LET product == find(products, cartItem.productId)
  IN  IF product = Undefined
      THEN [value |-> Null,
            log |-> << "Product with ID " \o cartItem.productId \o " not found." >>,
            cartItem |-> cartItem, products |-> products]
      ELSE LET merged == [name |-> product.name, qty |-> cartItem.qty,
                          category |-> product.category, cost |-> product.cost,
                          rating |-> product.rating, image |-> product.image,
                          productId |-> product._id]
           IN [value |-> merged, log |-> <<>>, cartItem |-> merged, products |-> products]

\* the callback without its console.error
mapCallbackSilent(cartItem, products) ==
  LET product == find(products, cartItem.productId)
  IN  IF product = Undefined
      THEN [value |-> Null, log |-> <<>>, cartItem |-> cartItem, products |-> products]
      ELSE [value |-> [name |-> product.name, qty |-> cartItem.qty,
                       category |-> product.category, cost |-> product.cost,
                       rating |-> product.rating, image |-> product.image,
                       productId |-> product._id],
            log |-> <<>>, cartItem |-> cartItem, products |-> products]

\* Cart.js 65-88: the callback given to cartData.map.  value is what it returns,
\* log what it writes with console.error, cartItem and products its two
\* objects as the call leaves them.
mapCallback(cartItem, products) ==
  LET product == find(products, cartItem.productId)
  IN  IF product = Undefined
      THEN [value |-> Null,
            log |-> << "Product with ID " \o cartItem.productId \o " not found." >>,
            cartItem |-> cartItem, products |-> products]
      ELSE LET cartItemData == [name |-> product.name, qty |-> cartItem.qty,
                                category |-> product.category, cost |-> product.cost,
                                rating |-> product.rating, image |-> product.image,
                                productId |-> product._id]
           IN [value |-> cartItemData, log |-> <<>>,
               cartItem |-> cartItem, products |-> products]

\* a map that builds its array back to front
RECURSIVE mapReversed(_, _)
mapReversed(elems, products) ==
  IF elems = <<>>
  THEN [values |-> <<>>, log |-> <<>>, elems |-> <<>>, products |-> products]
  ELSE LET c == mapCallback(Head(elems), products)
           r == mapReversed(Tail(elems), c.products)
       IN [values |-> r.values \o <<c.value>>, log |-> c.log \o r.log,
           elems |-> <<c.cartItem>> \o r.elems, products |-> r.products]

\* Cart.js 65: Array.prototype.map, left to right.  values is the new array,
\* log the diagnostics in the order written, elems and products the two
\* arrays' contents after the callbacks ran.
RECURSIVE map(_, _)
map(elems, products) ==
  IF elems = <<>>
  THEN [values |-> <<>>, log |-> <<>>, elems |-> <<>>, products |-> products]
  ELSE LET c == mapCallback(Head(elems), products)
           r == map(Tail(elems), c.products)
       IN [values |-> <<c.value>> \o r.values, log |-> c.log \o r.log,
           elems |-> <<c.cartItem>> \o r.elems, products |-> r.products]

\* no filtering: the nulls stay
filterBooleanKeepAll(cartItems) == cartItems

\* Cart.js 91: cartItems.filter(Boolean); every element is null or an object
filterBoolean(cartItems) == SelectSeq(cartItems, LAMBDA x : x # Null)

\* Cart.js 54-92.  threw: the call raised a TypeError (cartData.map on a value
\* without map); ret: the returned array; log: the console.error lines of the
\* call; cartData, productsData: the two arguments as the call leaves them.
generateCartItemsFrom(cd, pd) ==
  IF productsDataUnavailable(pd)
  THEN [threw |-> FALSE, ret |-> Arr(<<>>), log |-> <<>>, cartData |-> cd, productsData |-> pd]
  ELSE IF ~isArray(cd)
  THEN [threw |-> TRUE, ret |-> Undefined, log |-> <<>>, cartData |-> cd, productsData |-> pd]
  ELSE LET m == map(cd.v, pd.v)
       IN [threw |-> FALSE, ret |-> Arr(filterBoolean(m.values)), log |-> m.log,
           cartData |-> Arr(m.elems), productsData |-> Arr(m.products)]

\* ------------------------------------------------------- the aggregates

\* the default parameter `items = []` (Cart.js 104, 108, 162): only undefined
\* takes the default
defaultItems(its) == IF its = Undefined THEN Arr(<<>>) ELSE its

\* a reduction that counts a negative quantity as 0
RECURSIVE reduceCostQtyClamped(_, _)
reduceCostQtyClamped(s, total) ==
  IF s = <<>> THEN total
  ELSE reduceCostQtyClamped(Tail(s),
         total + Head(s).cost * (IF Head(s).qty < 0 THEN 0 ELSE Head(s).qty))

\* Cart.js 105: items.reduce((total, item) => total + item.cost * item.qty, 0),
\* Array.prototype.reduce from the left with the running total
RECURSIVE reduceCostQty(_, _)
reduceCostQty(s, total) ==
  IF s = <<>> THEN total
  ELSE reduceCostQty(Tail(s), total + Head(s).cost * Head(s).qty)

\* a reduction that counts line items instead of units
RECURSIVE reduceQtyLines(_, _)
reduceQtyLines(s, total) ==
  IF s = <<>> THEN total
  ELSE reduceQtyLines(Tail(s), total + 1)

\* Cart.js 110: items.reduce((total, item) => total + item.qty, 0)
RECURSIVE reduceQty(_, _)
reduceQty(s, total) ==
  IF s = <<>> THEN total
  ELSE reduceQty(Tail(s), total + Head(s).qty)

\* Cart.js 104-106
getTotalCartValue(its) == reduceCostQty(defaultItems(its).v, 0)

\* Cart.js 108-112.  reduced: whether the call reached items.reduce
getTotalItemsTrace(its) ==
  IF Len(defaultItems(its).v) = 0
  THEN [ret |-> 0, reduced |-> FALSE]
  ELSE [ret |-> reduceQty(defaultItems(its).v, 0), reduced |-> TRUE]

getTotalItems(its) == getTotalItemsTrace(its).ret

\* ------------------------------------------------------------ Cart view

\* the line items the Cart view is drawn with
ViewQuantities == {0, 1, 3}
LineItems ==
  { [name |-> p.name, qty |-> q, category |-> p.category, cost |-> p.cost,
     rating |-> p.rating, image |-> p.image, productId |-> p._id] :
    p \in {x \in Products : x.cost > 0}, q \in ViewQuantities }
ItemsValues == {Undefined} \cup { Arr(s) : s \in SeqsUpTo(LineItems, MaxItems) }
LocalStorageValues ==
  { [token |-> Null, username |-> Null],
    [token |-> Str(""), username |-> Null],
    [token |-> Str("token1"), username |-> Str("user1")] }

\* localStorage.getItem(key)
getItem(store, key) == store[key]

\* Cart.js 128-145: the quantity control; the two buttons exist unless
\* isReadOnly
ItemQuantity(value, ro) ==
  IF ro THEN [kind |-> "text", value |-> value]
  ELSE [kind |-> "buttons", value |-> value]

\* Cart.js 210-215: handleAdd, the argument list it calls handleQuantity with
handleAdd(store, item) ==
  << getItem(store, "token"), "", "", item.productId, item.qty + 1 >>

\* a decrement that never requests less than 0
handleDeleteClamped(store, item) ==
  << getItem(store, "token"), "", "", item.productId,
     IF item.qty - 1 < 0 THEN 0 ELSE item.qty - 1 >>

\* Cart.js 216-224: handleDelete
handleDelete(store, item) ==
  << getItem(store, "token"), "", "", item.productId, item.qty - 1 >>

\* Cart.js 266-284: the order details, shown in read-only mode
OrderDetails(its, ro) ==
  IF ro
  THEN [shown |-> TRUE, products |-> getTotalItems(its),
        subtotal |-> getTotalCartValue(its), shipping |-> 0,
        total |-> getTotalItems(its)]
  ELSE [shown |-> FALSE]

\* Cart.js 162-287: what Cart renders from its props
Cart(its0, chk, ro) ==
  LET its == defaultItems(its0)
  IN  IF Len(its.v) = 0 THEN [kind |-> "empty"]
      ELSE [kind |-> "cart",
            rows |-> [i \in 1..Len(its.v) |->
                        [key |-> its.v[i].productId, image |-> its.v[i].image,
                         name |-> its.v[i].name, cost |-> its.v[i].cost,
                         item |-> its.v[i],
                         quantity |-> ItemQuantity(its.v[i].qty, ro)]],
            orderTotal |-> getTotalCartValue(its),
            checkout |-> chk,
            orderDetails |-> OrderDetails(its, ro)]

\* Header.js 8-88: what Header renders from its prop and the store: the
\* Back to explore button, or the username with the Logout button, or the
\* Login and Register buttons
Header(hidden, store) ==
  IF hidden THEN [kind |-> "back"]
  ELSE IF Truthy(getItem(store, "token"))
  THEN [kind |-> "user", username |-> getItem(store, "username")]
  ELSE [kind |-> "auth"]

Unmounted == [kind |-> "unmounted"]
NoEvent == [kind |-> "none"]

\* ------------------------------------------------------------- actions

CoreIdle ==
  /\ genCall = NotCalled /\ aggCall = NotCalled

ViewIdle ==
  /\ isReadOnly = FALSE /\ hasCheckoutButton = FALSE /\ hasHiddenAuthButtons = FALSE
  /\ localStorage = [token |-> Null, username |-> Null]
  /\ view = Unmounted /\ header = Unmounted /\ reloadPending = FALSE
  /\ lastEvent = NoEvent
  /\ handleQuantityCalls = <<>> /\ historyTop = Null

\* the assembler and the aggregates, on inputs drawn from the bounded sets
Init ==
  /\ cartData \in CartDataValues
  /\ productsData \in ProductsDataValues
  /\ items = Undefined
  /\ CoreIdle
  /\ ViewIdle

\* a call generateCartItemsFrom(cartData, productsData); the caller keeps the
\* result in items unless the call threw
CallGenerateCartItemsFrom ==
  LET r == generateCartItemsFrom(cartData, productsData)
  IN  /\ genCall' = [called |-> TRUE, cartData |-> cartData, productsData |-> productsData,
                     threw |-> r.threw, ret |-> r.ret, log |-> r.log,
                     cartDataAfter |-> r.cartData, productsDataAfter |-> r.productsData]
      /\ cartData' = r.cartData
      /\ productsData' = r.productsData
      /\ items' = IF r.threw THEN items ELSE r.ret
      /\ UNCHANGED aggCall
      /\ UNCHANGED viewVars

\* a call getTotalCartValue(items)
CallGetTotalCartValue ==
  /\ aggCall' = [called |-> TRUE, fn |-> "getTotalCartValue", items |-> items,
                 ret |-> getTotalCartValue(items)]
  /\ UNCHANGED <<cartData, productsData, items, genCall>>
  /\ UNCHANGED viewVars

\* a call getTotalItems(items)
CallGetTotalItems ==
  LET r == getTotalItemsTrace(items)
  IN  /\ aggCall' = [called |-> TRUE, fn |-> "getTotalItems", items |-> items,
                     ret |-> r.ret, reduced |-> r.reduced]
      /\ UNCHANGED <<cartData, productsData, items, genCall>>
      /\ UNCHANGED viewVars

Next ==
  \/ CallGenerateCartItemsFrom
  \/ CallGetTotalCartValue
  \/ CallGetTotalItems

Spec == Init /\ [][Next]_vars

\* the Cart view and the Header, on props drawn from the bounded sets
InitView ==
  /\ cartData = Undefined
  /\ productsData = Undefined
  /\ items \in ItemsValues
  /\ CoreIdle
  /\ isReadOnly \in BOOLEAN
  /\ hasCheckoutButton \in BOOLEAN
  /\ hasHiddenAuthButtons \in BOOLEAN
  /\ localStorage \in LocalStorageValues
  /\ view = Unmounted
  /\ header = Unmounted
  /\ reloadPending = FALSE
  /\ lastEvent = NoEvent
  /\ handleQuantityCalls = <<>>
  /\ historyTop = Null

props == <<isReadOnly, hasCheckoutButton, hasHiddenAuthButtons>>

\* React renders the page, Header and Cart, with the current props and store
Render ==
  /\ view' = Cart(items, hasCheckoutButton, isReadOnly)
  /\ header' = Header(hasHiddenAuthButtons, localStorage)
  /\ UNCHANGED <<props, localStorage, reloadPending, lastEvent,
                 handleQuantityCalls, historyTop>>
  /\ UNCHANGED coreVars

\* a click on the + button of row i (Cart.js 140, 210-215)
ClickAdd(i) ==
  /\ view.kind = "cart"
  /\ i \in DOMAIN view.rows
  /\ view.rows[i].quantity.kind = "buttons"
  /\ handleQuantityCalls' = << handleAdd(localStorage, view.rows[i].item) >>
  /\ lastEvent' = [kind |-> "add", row |-> i, token |-> getItem(localStorage, "token"),
                   productId |-> view.rows[i].key, value |-> view.rows[i].quantity.value]
  /\ UNCHANGED <<props, localStorage, view, header, reloadPending, historyTop>>
  /\ UNCHANGED coreVars

\* a click on the - button of row i (Cart.js 134, 216-224)
ClickDelete(i) ==
  /\ view.kind = "cart"
  /\ i \in DOMAIN view.rows
  /\ view.rows[i].quantity.kind = "buttons"
  /\ handleQuantityCalls' = << handleDelete(localStorage, view.rows[i].item) >>
  /\ lastEvent' = [kind |-> "delete", row |-> i, token |-> getItem(localStorage, "token"),
                   productId |-> view.rows[i].key, value |-> view.rows[i].quantity.value]
  /\ UNCHANGED <<props, localStorage, view, header, reloadPending, historyTop>>
  /\ UNCHANGED coreVars

\* a click on Checkout (Cart.js 254-264)
ClickCheckout ==
  /\ view.kind = "cart"
  /\ view.checkout
  /\ historyTop' = Str("/checkout")
  /\ lastEvent' = [kind |-> "checkout"]
  /\ handleQuantityCalls' = <<>>
  /\ UNCHANGED <<props, localStorage, view, header, reloadPending>>
  /\ UNCHANGED coreVars

\* a click on the rendered Logout button (Header.js 48-59): the handler
\* clears the store, asks for the reload and returns; the page stays as
\* rendered until it unloads
ClickLogout ==
  /\ header.kind = "user"
  /\ localStorage' = [token |-> Null, username |-> Null]
  /\ reloadPending' = TRUE
  /\ lastEvent' = [kind |-> "logout"]
  /\ handleQuantityCalls' = <<>>
  /\ UNCHANGED <<props, view, header, historyTop>>
  /\ UNCHANGED coreVars

\* the reload asked for at Header.js 56 takes place: the page unloads
PageReload ==
  /\ reloadPending
  /\ reloadPending' = FALSE
  /\ view' = Unmounted
  /\ header' = Unmounted
  /\ UNCHANGED <<props, localStorage, lastEvent, handleQuantityCalls, historyTop>>
  /\ UNCHANGED coreVars

\* a click on one of the Header's rendered navigation buttons: Back to
\* explore (Header.js 17-27), Login (60-73), Register (74-84)
ClickHeaderNav ==
  /\ \E path \in IF header.kind = "back" THEN {"/"}
                 ELSE IF header.kind = "auth" THEN {"/login", "/register"}
                 ELSE {} :
         historyTop' = Str(path)
  /\ lastEvent' = [kind |-> "nav"]
  /\ handleQuantityCalls' = <<>>
  /\ UNCHANGED <<props, localStorage, view, header, reloadPending>>
  /\ UNCHANGED coreVars

NextView ==
  \/ Render
  \/ \E i \in 1..(MaxItems + 1) : ClickAdd(i)
  \/ \E i \in 1..(MaxItems + 1) : ClickDelete(i)
  \/ ClickCheckout
  \/ ClickLogout
  \/ PageReload
  \/ ClickHeaderNav

SpecView == InitView /\ [][NextView]_vars

\* ---------------------------------------------------------- properties

\* the ids of a catalog, and the cart entries with and without a product
CatalogIds(pd) == { pd.v[i]._id : i \in 1..Len(pd.v) }
HasMatch(e, pd) == e.productId \in CatalogIds(pd)
MatchedEntries(cd, pd) == SelectSeq(cd.v, LAMBDA e : HasMatch(e, pd))
UnmatchedEntries(cd, pd) == SelectSeq(cd.v, LAMBDA e : ~HasMatch(e, pd))

\* the first product of the catalog with the id
FirstProduct(pd, id) ==
  pd.v[CHOOSE i \in 1..Len(pd.v) :
         pd.v[i]._id = id /\ \A j \in 1..(i - 1) : pd.v[j]._id # id]

\* the sums, taken from the last element back
RECURSIVE SumCostTimesQuantity(_, _)
SumCostTimesQuantity(s, n) ==
  IF n = 0 THEN 0 ELSE s[n].cost * s[n].qty + SumCostTimesQuantity(s, n - 1)

RECURSIVE SumQuantity(_, _)
SumQuantity(s, n) ==
  IF n = 0 THEN 0 ELSE s[n].qty + SumQuantity(s, n - 1)

\* the latest generateCartItemsFrom call had an array of cart entries and
\* a non-empty array as catalog
Assembled ==
  /\ genCall.called
  /\ genCall.cartData.t = "array"
  /\ genCall.productsData.t = "array"
  /\ Len(genCall.productsData.v) > 0

\* C1: generateCartItemsFrom returns the empty array, without raising an
\* error, whenever the catalog is absent, is not an array or is an array of
\* length 0, whatever the cart entries are (absent ones included).
C1_UnavailableCatalogGivesEmpty ==
  (/\ genCall.called
   /\ \/ genCall.productsData \in {Undefined, Null}
      \/ genCall.productsData.t # "array"
      \/ Len(genCall.productsData.v) = 0)
  => (~genCall.threw /\ genCall.ret = Arr(<<>>))

C1_Witness ==
  /\ genCall.called
  /\ genCall.productsData = Arr(<<>>)
  /\ genCall.cartData = Undefined
  /\ ~genCall.threw
  /\ genCall.ret = Arr(<<>>)

\* C2: with a non-empty catalog the result holds one line item per cart
\* entry whose productId is the id of a catalog product and nothing for any
\* other entry: no null element, every productId of the result is a catalog
\* id, and the length is the number of matching entries.
C2_OneLineItemPerMatchingEntry ==
  Assembled =>
    /\ ~genCall.threw
    /\ Len(genCall.ret.v) =
         Cardinality({ i \in 1..Len(genCall.cartData.v) :
                         HasMatch(genCall.cartData.v[i], genCall.productsData) })
    /\ \A k \in 1..Len(genCall.ret.v) :
         /\ genCall.ret.v[k] # Null
         /\ genCall.ret.v[k].productId \in CatalogIds(genCall.productsData)

C2_Witness ==
  /\ Assembled
  /\ Len(genCall.cartData.v) = 2
  /\ ~HasMatch(genCall.cartData.v[1], genCall.productsData)
  /\ HasMatch(genCall.cartData.v[2], genCall.productsData)
  /\ Len(genCall.ret.v) = 1

\* C3: the result keeps the order of the cart entries: the productIds and
\* quantities of the result, read in order, are those of the matching cart
\* entries, read in order.
C3_OrderPreserved ==
  Assembled =>
    LET ms == MatchedEntries(genCall.cartData, genCall.productsData)
    IN  /\ Len(genCall.ret.v) = Len(ms)
        /\ \A k \in 1..Len(ms) :
             /\ genCall.ret.v[k].productId = ms[k].productId
             /\ genCall.ret.v[k].qty = ms[k].qty

C3_Witness ==
  /\ Assembled
  /\ Len(genCall.cartData.v) = 2
  /\ genCall.cartData.v[1].productId = "B"
  /\ genCall.cartData.v[2].productId = "A"
  /\ Len(genCall.ret.v) = 2
  /\ genCall.ret.v[1].productId = "B"
  /\ genCall.ret.v[2].productId = "A"

\* C4: the line item of a matching cart entry carries the entry's quantity
\* and the name, category, cost, rating, image and id of the first catalog
\* product with the entry's productId; an id the catalog holds several times
\* still gives one line item.
C4_FieldsOfFirstMatchingProduct ==
  Assembled =>
    LET ms == MatchedEntries(genCall.cartData, genCall.productsData)
    IN  /\ Len(genCall.ret.v) = Len(ms)
        /\ \A k \in 1..Len(ms) :
             LET p == FirstProduct(genCall.productsData, ms[k].productId)
             IN  genCall.ret.v[k] =
                   [name |-> p.name, qty |-> ms[k].qty, category |-> p.category,
                    cost |-> p.cost, rating |-> p.rating, image |-> p.image,
                    productId |-> p._id]

C4_Witness ==
  /\ Assembled
  /\ Len(genCall.productsData.v) = 2
  /\ genCall.productsData.v[1]._id = genCall.productsData.v[2]._id
  /\ genCall.productsData.v[1].name # genCall.productsData.v[2].name
  /\ Len(genCall.cartData.v) = 1
  /\ Len(genCall.ret.v) = 1
  /\ genCall.ret.v[1].name = genCall.productsData.v[1].name
  /\ genCall.ret.v[1].qty = genCall.cartData.v[1].qty

\* C5 (as amended): every cart entry without a match is dropped from the
\* result; with a non-empty catalog each such entry causes one diagnostic
\* naming its productId, in the order of the entries, and matching entries
\* cause none; with an empty, absent or non-array catalog the call returns
\* the empty array and logs nothing.
C5_DiagnosticPerUnmatchedEntry ==
  (genCall.called /\ genCall.cartData.t = "array") =>
    IF genCall.productsData.t = "array" /\ Len(genCall.productsData.v) > 0
    THEN LET us == UnmatchedEntries(genCall.cartData, genCall.productsData)
         IN  /\ Len(genCall.log) = Len(us)
             /\ \A k \in 1..Len(us) :
                  genCall.log[k] = "Product with ID " \o us[k].productId \o " not found."
             /\ \A k \in 1..Len(genCall.ret.v) :
                  HasMatch(genCall.ret.v[k], genCall.productsData)
    ELSE genCall.log = <<>> /\ genCall.ret = Arr(<<>>)

C5_Witness ==
  /\ Assembled
  /\ Len(genCall.cartData.v) = 2
  /\ genCall.cartData.v[1].productId = "A"
  /\ genCall.cartData.v[2].productId = "Z"
  /\ genCall.log = << "Product with ID Z not found." >>
  /\ Len(genCall.ret.v) = 1

\* C5 as claimed: for every catalog, an empty one included, each cart entry
\* without a match causes one diagnostic.
C5_DiagnosticForEveryCatalog ==
  (/\ genCall.called
   /\ genCall.cartData.t = "array"
   /\ genCall.productsData.t = "array")
  => Len(genCall.log) = Len(UnmatchedEntries(genCall.cartData, genCall.productsData))

\* C6: getTotalCartValue returns the sum of cost * quantity over the line
\* items, negative quantities counted as they are, and 0 for the empty array
\* and for undefined.
C6_TotalCartValueIsSum ==
  (aggCall.called /\ aggCall.fn = "getTotalCartValue") =>
    aggCall.ret = IF aggCall.items = Undefined THEN 0
                  ELSE SumCostTimesQuantity(aggCall.items.v, Len(aggCall.items.v))

C6_Witness ==
  /\ aggCall.called
  /\ aggCall.fn = "getTotalCartValue"
  /\ aggCall.items # Undefined
  /\ Len(aggCall.items.v) = 2
  /\ aggCall.items.v[1].cost = 5 /\ aggCall.items.v[1].qty = 3
  /\ aggCall.items.v[2].cost = 2 /\ aggCall.items.v[2].qty = -1
  /\ aggCall.ret = 13

\* C7: getTotalItems returns the sum of the quantities (units, not line
\* items), whatever the costs, and 0 for the empty array and for undefined,
\* which it returns before it reaches the reduction.
C7_TotalItemsIsSumOfQuantities ==
  (aggCall.called /\ aggCall.fn = "getTotalItems") =>
    /\ aggCall.ret = IF aggCall.items = Undefined THEN 0
                     ELSE SumQuantity(aggCall.items.v, Len(aggCall.items.v))
    /\ (aggCall.items = Undefined \/ Len(aggCall.items.v) = 0)
         => (aggCall.ret = 0 /\ ~aggCall.reduced)

C7_Witness ==
  /\ aggCall.called
  /\ aggCall.fn = "getTotalItems"
  /\ aggCall.items # Undefined
  /\ Len(aggCall.items.v) = 2
  /\ aggCall.items.v[1].qty = 3 /\ aggCall.items.v[2].qty = 1
  /\ aggCall.items.v[1].cost # aggCall.items.v[2].cost
  /\ aggCall.reduced
  /\ aggCall.ret = 4

\* C8: the three functions leave their inputs as they were: no call changes
\* the cart entries or the catalog, the aggregates leave the line items
\* alone, and calling generateCartItemsFrom again on the same inputs gives
\* an equal result.
C8_InputsUnchanged ==
  /\ [][/\ cartData' = cartData
        /\ productsData' = productsData
        /\ (genCall' = genCall => items' = items)]_vars
  /\ [](genCall.called =>
          /\ genCall.cartDataAfter = genCall.cartData
          /\ genCall.productsDataAfter = genCall.productsData
          /\ generateCartItemsFrom(cartData, productsData).threw = genCall.threw
          /\ generateCartItemsFrom(cartData, productsData).ret = genCall.ret)

C8_Witness ==
  /\ Assembled
  /\ aggCall.called
  /\ Len(genCall.cartData.v) = 2
  /\ Len(genCall.ret.v) = 2
  /\ cartData = genCall.cartData
  /\ productsData = genCall.productsData
  /\ items = genCall.ret

\* C9 (as amended): in editable mode a click on + calls handleQuantity once,
\* with five arguments: the token in the store at the click, two empty
\* strings, the item's productId and the displayed quantity + 1; a click on
\* - does the same with the displayed quantity - 1, unchecked (0 at 1, -1 at
\* 0); in read-only mode nothing calls handleQuantity.
C9_QuantityClicksCallHandleQuantity ==
  /\ lastEvent.kind = "add" =>
       handleQuantityCalls =
         << << lastEvent.token, "", "", lastEvent.productId, lastEvent.value + 1 >> >>
  /\ lastEvent.kind = "delete" =>
       handleQuantityCalls =
         << << lastEvent.token, "", "", lastEvent.productId, lastEvent.value - 1 >> >>
  /\ lastEvent.kind \in {"add", "delete"} =>
       /\ ~isReadOnly
       /\ lastEvent.token = getItem(localStorage, "token")
       /\ lastEvent.productId = items.v[lastEvent.row].productId
       /\ lastEvent.value = items.v[lastEvent.row].qty
  /\ lastEvent.kind \notin {"add", "delete"} => handleQuantityCalls = <<>>
  /\ isReadOnly => handleQuantityCalls = <<>>

C9_Witness ==
  /\ ~isReadOnly
  /\ lastEvent.kind = "delete"
  /\ lastEvent.value = 0
  /\ lastEvent.token = Str("token1")
  /\ Len(handleQuantityCalls) = 1
  /\ handleQuantityCalls[1][1] = Str("token1")
  /\ handleQuantityCalls[1][5] = -1

\* C9 as claimed: the collaborator is called with the token, the productId
\* and the new quantity.
C9_ThreeArguments ==
  /\ lastEvent.kind = "add" =>
       handleQuantityCalls =
         << << lastEvent.token, lastEvent.productId, lastEvent.value + 1 >> >>
  /\ lastEvent.kind = "delete" =>
       handleQuantityCalls =
         << << lastEvent.token, lastEvent.productId, lastEvent.value - 1 >> >>
  /\ isReadOnly => handleQuantityCalls = <<>>

\* C10: in read-only mode with a non-empty cart the Total row shows the
\* Subtotal plus the shipping charge of 0, the value of the cart.
C10_TotalIsSubtotalPlusShipping ==
  (view.kind = "cart" /\ view.orderDetails.shown) =>
    /\ view.orderDetails.total = view.orderDetails.subtotal + view.orderDetails.shipping
    /\ view.orderDetails.total = SumCostTimesQuantity(items.v, Len(items.v))

=============================================================================
